---------------------------- MODULE Spec2Model ----------------------------
(***************************************************************************)
(* Model of the BinSearch provider of Medusa                               *)
(* (src/medusa/providers/nzb/binsearch.py).                                *)
(*                                                                         *)
(* Two entry points are modelled, each stepped through its own loop:       *)
(*   - BinSearchCache.update_cache  (specification SpecCache)              *)
(*   - BinSearchProvider.search / parse  (specification SpecSearch)        *)
(* Capabilities that live outside src/ (tv.Cache, NZBProvider.get_url,     *)
(* the feed parser, the persistence store, pytimeparse, convert_size) are  *)
(* modelled by their contract and return every outcome the contract        *)
(* allows.                                                                 *)
(***************************************************************************)
EXTENDS Integers, Sequences, FiniteSets, TLC

VARIABLES
    \* ---- BinSearchCache ----
    clock,      \* time() / now(), in minutes
    updated,    \* self.updated: the last_update timestamp
    cache,      \* the provider's rows in the cache store
    cpc,        \* position inside update_cache: "idle", "clear", "set", "fetch", "persist"
    g,          \* index of the category the for loop of update_cache is at
    cl,         \* the list cl of update_cache
    feed,       \* what get_rss_feed returned last
    log,        \* the calls update_cache has made since it was entered
    outcome,    \* how the last update_cache call ended
    started,    \* the time at which the running/last refresh set self.updated
    batches,    \* the row lists this update_cache call handed to mass_action
    \* ---- BinSearchProvider ----
    search_strings, \* the argument of search: a sequence of <<mode, queries>>
    spc,        \* position inside search: "idle", "loop", "got", "done", "raised"
    idx,        \* index of the (mode, query, group) iteration search is at
    response,   \* what get_url returned last
    results,    \* the list results of search
    fetched,    \* the search_params of every get_url call of this search
    exc,        \* the exception that left search, "none" if none
    logged,     \* the mode-dependent debug events this search has logged
    twin,       \* the same search, on the same responses, run in the other mode
    \* ---- field extractors, called on their own ----
    arg,        \* the argument the extractor is called with
    ret         \* the values it returned, call after call

cacheVars  == <<clock, updated, cache, cpc, g, cl, feed, log, outcome, started, batches>>
searchVars == <<search_strings, spc, idx, response, results, fetched, exc, logged, twin>>
pureVars   == <<arg, ret>>
vars       == <<clock, updated, cache, cpc, g, cl, feed, log, outcome, started, batches,
                search_strings, spc, idx, response, results, fetched, exc, logged, twin,
                arg, ret>>

-----------------------------------------------------------------------------
(* Bounds of the model *)

\* the clock stops advancing here
MaxClock == 60
\* entries one feed response carries at most
MaxEntries == 1
\* length the result list of one search is allowed to reach
MaxResults == 2

-----------------------------------------------------------------------------
(* Helpers *)

Range(s) == {s[i] : i \in 1..Len(s)}

Last(s) == s[Len(s)]

-----------------------------------------------------------------------------
(* BinSearchCache *)

\* BinSearchProvider.__init__: BinSearchCache(self, min_time=30)
min_time == 30

\* the for loop of update_cache
groups == <<"alt.binaries.hdtv", "alt.binaries.hdtv.x264",
            "alt.binaries.tv", "alt.binaries.tvseries">>

\* python's None, and the Failure of the capabilities
None == [kind |-> "None"]

\* A feed entry of category c: its position in the feed, and whether the
\* generic feed-item normalizer can make a cache item of it.
Entry(c, n, usable) == [cat |-> c, n |-> n, usable |-> usable]

\* the entry lists a feed of category c can carry: entry i sits at position i
EntryListsOf(c) ==
    UNION {{[i \in 1..k |-> Entry(c, i, u[i])] : u \in [1..k -> BOOLEAN]} :
            k \in 0..MaxEntries}

\* parseFeed(url, params) -> {"entries": ...} | Failure
\* A mapping carries the feed-level container ("feed", empty or not), the
\* feed title and the entries.
FeedResponses(c) ==
    {None} \cup
    {[kind |-> "Feed", feed |-> f, title |-> t, entries |-> es] :
        f \in BOOLEAN, t \in {"BinSearch", "Invalid Link"}, es \in EntryListsOf(c)}

\* tv.Cache.should_update: refresh only when now - last_update >= min_time
should_update == ~(clock - updated < min_time)

\* tv.Cache._parse_item: the cache item of a feed entry, or None
_parse_item(item) ==
    IF item.usable THEN [kind |-> "CacheItem", cat |-> item.cat, n |-> item.n]
    ELSE None

\* BinSearchCache._check_auth(data)
_check_auth(data) ==
    IF data.feed /\ data.title # "Invalid Link" THEN data ELSE None

Ev(e, c) == [ev |-> e, g |-> c]


\* the cache items update_cache appends to cl for the entries of one feed
\* (lines 234-237: for item in data: ci = _parse_item(item); if ci: append)
RECURSIVE Items(_)
Items(data) ==
    IF data = <<>> THEN <<>>
    ELSE LET ci == _parse_item(Head(data))
         IN  (IF ci # None THEN <<ci>> ELSE <<>>) \o Items(Tail(data))

\* cache_db_con.mass_action(cl): a batched upsert of the rows
mass_action(rows) == cache \cup Range(rows)

\* now(): the clock never goes back; it may advance between any two steps
Tick ==
    /\ \E d \in {min_time \div 2, min_time} :
          /\ clock + d <= MaxClock
          /\ clock' = clock + d
    /\ UNCHANGED <<updated, cache, cpc, g, cl, feed, log, outcome, started, batches>>
    /\ UNCHANGED <<searchVars, pureVars>>

\* update_cache without the early return of line 218: the call goes on to
\* the clear although the interval has not elapsed
UpdateCacheSkip_NoReturn ==
    /\ cpc = "idle"
    /\ ~should_update
    /\ cpc' = "clear"
    /\ outcome' = "running"
    /\ log' = <<>>
    /\ batches' = <<>>
    /\ UNCHANGED <<clock, updated, cache, g, cl, feed, started>>
    /\ UNCHANGED <<searchVars, pureVars>>

\* update_cache, lines 217-218: if not self.should_update(): return
UpdateCacheSkip ==
    /\ cpc = "idle"
    /\ ~should_update
    /\ outcome' = "noop"
    /\ log' = <<>>
    /\ batches' = <<>>
    /\ UNCHANGED <<clock, updated, cache, cpc, g, cl, feed, started>>
    /\ UNCHANGED <<searchVars, pureVars>>

\* update_cache without the test of line 217: the call goes on whatever
\* should_update() answers
UpdateCacheEnter_Unguarded ==
    /\ cpc = "idle"
    /\ cpc' = "clear"
    /\ outcome' = "running"
    /\ log' = <<>>
    /\ batches' = <<>>
    /\ UNCHANGED <<clock, updated, cache, g, cl, feed, started>>
    /\ UNCHANGED <<searchVars, pureVars>>

\* update_cache, line 217 when should_update() holds: the call goes on
UpdateCacheEnter ==
    /\ cpc = "idle"
    /\ should_update
    /\ cpc' = "clear"
    /\ outcome' = "running"
    /\ log' = <<>>
    /\ batches' = <<>>
    /\ UNCHANGED <<clock, updated, cache, g, cl, feed, started>>
    /\ UNCHANGED <<searchVars, pureVars>>

\* update_cache without the _clear_cache() of line 221: the rows of the
\* cache stay while the feeds are fetched
ClearCache_NotCleared ==
    /\ cpc = "clear"
    /\ log' = Append(log, Ev("clear", 0))
    /\ cpc' = "set"
    /\ UNCHANGED <<clock, updated, cache, g, cl, feed, outcome, started, batches>>
    /\ UNCHANGED <<searchVars, pureVars>>

\* update_cache, lines 220-221: self._clear_cache()
ClearCache ==
    /\ cpc = "clear"
    /\ cache' = {}
    /\ log' = Append(log, Ev("clear", 0))
    /\ cpc' = "set"
    /\ UNCHANGED <<clock, updated, g, cl, feed, outcome, started, batches>>
    /\ UNCHANGED <<searchVars, pureVars>>

\* update_cache stamping self.updated only once the refresh has completed:
\* at line 224 nothing is written
SetUpdated_NotStamped ==
    /\ cpc = "set"
    /\ started' = clock
    /\ log' = Append(log, Ev("updated", 0))
    /\ cl' = <<>>
    /\ g' = 1
    /\ cpc' = "fetch"
    /\ UNCHANGED <<clock, updated, cache, feed, outcome, batches>>
    /\ UNCHANGED <<searchVars, pureVars>>

\* update_cache, lines 223-226: self.updated = time(); cl = []
SetUpdated ==
    /\ cpc = "set"
    /\ updated' = clock
    /\ started' = clock
    /\ log' = Append(log, Ev("updated", 0))
    /\ cl' = <<>>
    /\ g' = 1
    /\ cpc' = "fetch"
    /\ UNCHANGED <<clock, cache, feed, outcome, batches>>
    /\ UNCHANGED <<searchVars, pureVars>>

\* update_cache, lines 227-237: one turn of the for loop over the groups.
\* get_rss_feed(...)['entries'] subscripts whatever get_rss_feed returned:
\* on a Failure the subscript raises and the exception leaves update_cache.
FetchCategory ==
    /\ cpc = "fetch"
    /\ \E r \in FeedResponses(g) :
          /\ feed' = r
          /\ log' = Append(log, Ev("fetch", g))
          /\ IF r = None
             THEN /\ cpc' = "idle"
                  /\ outcome' = "raised"
                  /\ UNCHANGED <<cl, g>>
             ELSE /\ cl' = cl \o Items(r.entries)
                  /\ IF g < Len(groups)
                     THEN g' = g + 1 /\ cpc' = "fetch"
                     ELSE g' = g /\ cpc' = "persist"
                  /\ UNCHANGED outcome
    /\ UNCHANGED <<clock, updated, cache, started, batches>>
    /\ UNCHANGED <<searchVars, pureVars>>

\* update_cache without the test of line 239: mass_action is called with
\* whatever cl holds
Persist_Unconditional ==
    /\ cpc = "persist"
    /\ cache' = mass_action(cl)
    /\ batches' = Append(batches, cl)
    /\ log' = Append(log, Ev("persist", 0))
    /\ cpc' = "idle"
    /\ outcome' = "returned"
    /\ UNCHANGED <<clock, updated, g, cl, feed, started>>
    /\ UNCHANGED <<searchVars, pureVars>>

\* update_cache, lines 239-241: if cl: mass_action(cl); then the call returns
Persist ==
    /\ cpc = "persist"
    /\ IF cl # <<>>
       THEN /\ cache' = mass_action(cl)
            /\ batches' = Append(batches, cl)
            /\ log' = Append(log, Ev("persist", 0))
       ELSE UNCHANGED <<cache, batches, log>>
    /\ cpc' = "idle"
    /\ outcome' = "returned"
    /\ UNCHANGED <<clock, updated, g, cl, feed, started>>
    /\ UNCHANGED <<searchVars, pureVars>>

\* rows an earlier run of the program may have left in the cache store
OldRows == {[kind |-> "CacheItem", cat |-> 1, n |-> 1]}

InitCache ==
    /\ clock = 0
    /\ updated = 0
    /\ cache \in {{}, OldRows}
    /\ cpc = "idle"
    /\ g = 1
    /\ cl = <<>>
    /\ feed = None
    /\ log = <<>>
    /\ outcome = "none"
    /\ started = 0
    /\ batches = <<>>

-----------------------------------------------------------------------------
(* BinSearchProvider: the field extractors *)

\* a python string, as the sequence of its characters
Chars(s) == {s[i] : i \in 1..Len(s)}

\* str.rstrip(chars): drops every trailing character that is one of chars
RECURSIVE rstrip(_, _)
rstrip(s, chars) ==
    IF s # <<>> /\ s[Len(s)] \in Chars(chars)
    THEN rstrip(SubSeq(s, 1, Len(s) - 1), chars)
    ELSE s

\* parse, line 132: for extension in ('.nfo', '.par2', '.zip')
extensions == << <<".", "n", "f", "o">>, <<".", "p", "a", "r", "2">>,
                 <<".", "z", "i", "p">> >>

\* parse, lines 132-134: title = title.rstrip(extension), for each extension
RECURSIVE strip_extensions(_, _)
strip_extensions(title, exts) ==
    IF exts = <<>> THEN title
    ELSE strip_extensions(rstrip(title, Head(exts)), Tail(exts))

\* A size text "<digits>[.<digits>]<sep><unit>" of the subject column, in its
\* parts; None when the subject carries no "size: ..., parts" text at all.
SizeText(w, d, f, sp, u) == [kind |-> "Size", whole |-> w, dot |-> d, frac |-> f, sep |-> sp, unit |-> u]

\* size_regex = r'size: (\d+\.\d+\xa0\w{2}), parts': the group, or None
size_regex_search(text) ==
    IF /\ text # None
       /\ text.whole # <<>>
       /\ text.dot
       /\ text.frac # <<>>
       /\ text.sep = "nbsp"
       /\ Len(text.unit) = 2
    THEN text
    ELSE None

\* the number a sequence of decimal digits writes
RECURSIVE Digits(_)
Digits(ds) == IF ds = <<>> THEN 0 ELSE 10 * Digits(SubSeq(ds, 1, Len(ds) - 1)) + ds[Len(ds)]

RECURSIVE Pow10(_)
Pow10(n) == IF n = 0 THEN 1 ELSE 10 * Pow10(n - 1)

\* helper.common.convert_size(size, sep): bytes, or None when the text is no
\* "<number><sep><unit>" of a known unit
convert_size(size_field, sep) ==
    IF size_field = None THEN None
    ELSE IF size_field.sep # sep THEN None
    ELSE LET mult == CASE size_field.unit = <<"K", "B">> -> Pow10(3)
                       [] size_field.unit = <<"M", "B">> -> Pow10(6)
                       [] OTHER -> 0
         IN  IF mult = 0 THEN None
             ELSE [kind |-> "Int",
                   v |-> Digits(size_field.whole) * mult
                         + (Digits(size_field.frac) * mult) \div Pow10(Len(size_field.frac))]

\* pytimeparse.parse(text): seconds, or None for a text that is no relative time
timeparse(text) ==
    CASE text = "2 hours" -> [kind |-> "Int", v |-> 7200]
      [] text = "5 mins"  -> [kind |-> "Int", v |-> 300]
      [] OTHER            -> None

-----------------------------------------------------------------------------
(* BinSearchProvider.parse *)

\* parse, line 113
row_offset == 2

\* A <tr> of the result table, as parse reads it: the <input> of column 1
\* (present or not, and its name), the <span> of the subject column (present
\* or not), the first double-quoted segment of the span's text (present or
\* not), the size text of the subject column and the text of the age column.
Row(hasInput, name, hasSpan, hasQuote, quoted, size, age) ==
    [hasInput |-> hasInput, name |-> name, hasSpan |-> hasSpan,
     hasQuote |-> hasQuote, quoted |-> quoted, size |-> size, age |-> age]

\* value returned by the handling of one row: an item, a skip or a raise
Emit(item, trace) == [kind |-> "item", item |-> item, logged |-> trace]
Skip        == [kind |-> "skip"]
Raise(e)    == [kind |-> "raise", exc |-> e]

\* the row loop with the size handled as a required field: a row whose
\* subject gives no size is skipped
parse_row_SizeRequired(row, mode, now) ==
    IF ~row.hasInput THEN Raise("TypeError: find('input') is None")
    ELSE IF ~row.hasSpan THEN Raise("AttributeError: find('span') is None")
    ELSE IF ~row.hasQuote THEN Raise("AttributeError: title_regex.search is None")
    ELSE LET nzb_id == row.name
             title == strip_extensions(row.quoted, extensions)
             converted == convert_size(size_regex_search(row.size), "nbsp")
             pubdate_raw == timeparse(row.age)
         IN  IF title = <<>> \/ nzb_id = <<>> THEN Skip
             ELSE IF converted = None THEN Skip
             ELSE IF pubdate_raw = None THEN Raise("TypeError: timedelta(seconds=None)")
             ELSE Emit([title |-> title,
                        link |-> <<"https://www.binsearch.info/?action=nzb&", nzb_id, "=1">>,
                        size |-> converted.v,
                        pubdate |-> [now |-> now, minus |-> pubdate_raw.v]],
                       IF mode # "RSS" THEN <<[ev |-> "Found result", text |-> title]>> ELSE <<>>)

\* the row loop without the test of line 135: a row with an empty title or
\* an empty identifier goes on to become an item
parse_row_NoEmptyCheck(row, mode, now) ==
    IF ~row.hasInput THEN Raise("TypeError: find('input') is None")
    ELSE IF ~row.hasSpan THEN Raise("AttributeError: find('span') is None")
    ELSE IF ~row.hasQuote THEN Raise("AttributeError: title_regex.search is None")
    ELSE LET nzb_id == row.name
             title == strip_extensions(row.quoted, extensions)
             converted == convert_size(size_regex_search(row.size), "nbsp")
             pubdate_raw == timeparse(row.age)
         IN  IF pubdate_raw = None THEN Raise("TypeError: timedelta(seconds=None)")
             ELSE Emit([title |-> title,
                        link |-> <<"https://www.binsearch.info/?action=nzb&", nzb_id, "=1">>,
                        size |-> IF converted # None /\ converted.v # 0 THEN converted.v ELSE -1,
                        pubdate |-> [now |-> now, minus |-> pubdate_raw.v]],
                       IF mode # "RSS" THEN <<[ev |-> "Found result", text |-> title]>> ELSE <<>>)

\* the row loop with the mode steering more than the log: in mode 'RSS' a
\* row without a size is skipped
parse_row_ModeSteers(row, mode, now) ==
    IF ~row.hasInput THEN Raise("TypeError: find('input') is None")
    ELSE IF ~row.hasSpan THEN Raise("AttributeError: find('span') is None")
    ELSE IF ~row.hasQuote THEN Raise("AttributeError: title_regex.search is None")
    ELSE LET nzb_id == row.name
             title == strip_extensions(row.quoted, extensions)
             converted == convert_size(size_regex_search(row.size), "nbsp")
             pubdate_raw == timeparse(row.age)
         IN  IF title = <<>> \/ nzb_id = <<>> THEN Skip
             ELSE IF mode = "RSS" /\ converted = None THEN Skip
             ELSE IF pubdate_raw = None THEN Raise("TypeError: timedelta(seconds=None)")
             ELSE Emit([title |-> title,
                        link |-> <<"https://www.binsearch.info/?action=nzb&", nzb_id, "=1">>,
                        size |-> IF converted # None /\ converted.v # 0 THEN converted.v ELSE -1,
                        pubdate |-> [now |-> now, minus |-> pubdate_raw.v]],
                       IF mode # "RSS" THEN <<[ev |-> "Found result", text |-> title]>> ELSE <<>>)

\* parse, lines 127-160: the body of the for loop over the rows.
\* now is datetime.datetime.now().
parse_row(row, mode, now) ==
    IF ~row.hasInput THEN Raise("TypeError: find('input') is None")
    ELSE IF ~row.hasSpan THEN Raise("AttributeError: find('span') is None")
    ELSE IF ~row.hasQuote THEN Raise("AttributeError: title_regex.search is None")
    ELSE LET nzb_id == row.name
             title == strip_extensions(row.quoted, extensions)
         IN  IF title = <<>> \/ nzb_id = <<>> THEN Skip
             ELSE LET size_field == size_regex_search(row.size)
                      converted == convert_size(size_field, "nbsp")
                      size == IF converted # None /\ converted.v # 0
                              THEN converted.v ELSE -1
                      pubdate_raw == timeparse(row.age)
                  IN  IF pubdate_raw = None
                      THEN Raise("TypeError: timedelta(seconds=None)")
                      ELSE Emit([title |-> title,
                                 link |-> <<"https://www.binsearch.info/?action=nzb&", nzb_id, "=1">>,
                                 size |-> size,
                                 pubdate |-> [now |-> now, minus |-> pubdate_raw.v]],
                                \* lines 156-158: if mode != 'RSS': logger.log('Found result: ...')
                                IF mode # "RSS"
                                THEN <<[ev |-> "Found result", text |-> title]>>
                                ELSE <<>>)

\* parse, lines 126-160: the for loop; the first raise leaves it, and the
\* items found so far are lost with it (what was logged stays logged)
RECURSIVE parse_rows(_, _, _)
parse_rows(rows, mode, now) ==
    IF rows = <<>> THEN [items |-> <<>>, exc |-> "none", logged |-> <<>>]
    ELSE LET r == parse_row(Head(rows), mode, now)
         IN  IF r.kind = "raise" THEN [items |-> <<>>, exc |-> r.exc, logged |-> <<>>]
             ELSE LET rest == parse_rows(Tail(rows), mode, now)
                      trace == (IF r.kind = "item" THEN r.logged ELSE <<>>) \o rest.logged
                  IN  IF rest.exc # "none"
                      THEN [items |-> <<>>, exc |-> rest.exc, logged |-> trace]
                      ELSE [items |-> (IF r.kind = "item" THEN <<r.item>> ELSE <<>>) \o rest.items,
                            exc |-> "none", logged |-> trace]

\* BinSearchProvider.parse(data, mode): the items, or the exception raised.
\* data is the parsed document: whether it holds the table of class xMenuT,
\* and the <tr> of that table.
parse(data, mode, now) ==
    LET rows == IF data.table THEN data.rows ELSE <<>>
    IN  IF Len(rows) - row_offset = 0 THEN [items |-> <<>>, exc |-> "none", logged |-> <<>>]
        ELSE IF rows = <<>> THEN [items |-> <<>>, exc |-> "IndexError: rows[0]", logged |-> <<>>]
        ELSE parse_rows(SubSeq(rows, row_offset + 1, Len(rows)), mode, now)

-----------------------------------------------------------------------------
(* The pages the site can answer with *)

ShowTitle == <<"S", "h", "o", "w">>

\* the kinds of row a page is built of
RowKinds == {"good", "nosize", "nodot", "badunit", "ext", "emptyid", "emptytitle",
             "noinput", "nospan", "noquote", "badage"}

GoodSize == SizeText(<<1>>, TRUE, <<4, 0>>, "nbsp", <<"M", "B">>)

\* "size: 140\xa0MB, parts": no decimal point, size_regex does not match
NoDotSize == SizeText(<<1, 4, 0>>, FALSE, <<>>, "nbsp", <<"M", "B">>)

\* "size: 1.40\xa0XB, parts": size_regex matches, the unit is no unit
BadUnitSize == SizeText(<<1>>, TRUE, <<4, 0>>, "nbsp", <<"X", "B">>)

\* the row of kind k whose identifier is id
RowOf(k, id) ==
    CASE k = "good"       -> Row(TRUE, id, TRUE, TRUE, ShowTitle, GoodSize, "2 hours")
      [] k = "nosize"     -> Row(TRUE, id, TRUE, TRUE, ShowTitle, None, "5 mins")
      [] k = "nodot"      -> Row(TRUE, id, TRUE, TRUE, ShowTitle, NoDotSize, "5 mins")
      [] k = "badunit"    -> Row(TRUE, id, TRUE, TRUE, ShowTitle, BadUnitSize, "5 mins")
      [] k = "ext"        -> Row(TRUE, id, TRUE, TRUE, ShowTitle \o <<".", "n", "f", "o">>, GoodSize, "2 hours")
      [] k = "emptyid"    -> Row(TRUE, <<>>, TRUE, TRUE, ShowTitle, GoodSize, "2 hours")
      [] k = "emptytitle" -> Row(TRUE, id, TRUE, TRUE, <<"i", "n", "f", "o">>, GoodSize, "2 hours")
      [] k = "noinput"    -> Row(FALSE, <<>>, TRUE, TRUE, ShowTitle, GoodSize, "2 hours")
      [] k = "nospan"     -> Row(TRUE, id, FALSE, FALSE, <<>>, GoodSize, "2 hours")
      [] k = "noquote"    -> Row(TRUE, id, TRUE, FALSE, <<>>, GoodSize, "2 hours")
      [] k = "badage"     -> Row(TRUE, id, TRUE, TRUE, ShowTitle, GoodSize, "yesterday")

\* a header row of the table
HeaderRow == [header |-> TRUE]

\* the document of a response: no table, a table of 0, 1 or 2 rows, or the
\* two header rows followed by n data rows; row r of the answer to fetch k
\* carries the identifier "k r"
Page(table, rows) == [kind |-> "Page", table |-> table, rows |-> rows]

DataPages(k, n) ==
    {Page(TRUE, <<HeaderRow, HeaderRow>> \o [r \in 1..n |-> RowOf(ks[r], <<k, r>>)]) :
        ks \in [1..n -> RowKinds]}

Pages(k, maxRows) ==
    {Page(FALSE, <<>>), Page(TRUE, <<>>), Page(TRUE, <<HeaderRow>>),
     Page(TRUE, <<HeaderRow, HeaderRow>>)}
    \cup UNION {DataPages(k, n) : n \in 1..maxRows}

\* get_url(url, params) -> response | Failure
Responses(k, maxRows) == {None} \cup Pages(k, maxRows)

-----------------------------------------------------------------------------
(* BinSearchProvider.search *)

\* search, line 72
server_groups == <<1, 2>>

\* the arguments search is called with
SearchInputs ==
    { << <<"RSS", <<"">>>> >>,
      << <<"Episode", <<"q1", "q2">>>> >>,
      << <<"Season", <<"q1">>>>, <<"Episode", <<"q2">>>> >> }

\* search, lines 67-71 and 78, 81: the search_params of one turn
search_params(q, group) ==
    [adv_age |-> "", xminsize |-> 20, max |-> 250, q |-> q, server |-> group]

\* search, lines 74-79: the (mode, search_string, group) turns of the three
\* nested loops, in the order the loops take them
RECURSIVE QueryTurns(_, _)
QueryTurns(mode, qs) ==
    IF qs = <<>> THEN <<>>
    ELSE [i \in 1..Len(server_groups) |->
             [mode |-> mode, q |-> Head(qs), group |-> server_groups[i]]]
         \o QueryTurns(mode, Tail(qs))

RECURSIVE Turns(_)
Turns(ss) ==
    IF ss = <<>> THEN <<>>
    ELSE QueryTurns(Head(ss)[1], Head(ss)[2]) \o Turns(Tail(ss))

\* search, lines 82-84: if mode != 'RSS': logger.log('Search string: ...')
turn_log(mode, q) ==
    IF mode # "RSS" THEN <<[ev |-> "Search string", text |-> q]>> ELSE <<>>

\* the mode the twin search runs a turn in: 'RSS' against any other mode
TwinMode(mode) == IF mode = "RSS" THEN "Episode" ELSE "RSS"

\* search is called
SearchCall ==
    /\ spc \in {"idle", "done", "raised"}
    /\ \E ss \in SearchInputs : search_strings' = ss
    /\ results' = <<>>
    /\ fetched' = <<>>
    /\ exc' = "none"
    /\ response' = None
    /\ idx' = 1
    /\ spc' = "loop"
    /\ logged' = <<>>
    /\ twin' = [results |-> <<>>, fetched |-> <<>>, exc |-> "none", logged |-> <<>>]
    /\ UNCHANGED <<cacheVars, pureVars>>

\* search, lines 78-86: one turn up to
\* response = self.get_url(self.urls['search'], params=search_params)
SearchFetch ==
    /\ spc = "loop"
    /\ idx <= Len(Turns(search_strings))
    /\ LET t == Turns(search_strings)[idx]
       IN  /\ \E r \in Responses(idx, MaxResults - Len(results)) : response' = r
           /\ fetched' = Append(fetched, search_params(t.q, t.group))
           /\ logged' = logged \o turn_log(t.mode, t.q)
           /\ twin' = IF twin.exc # "none" THEN twin
                      ELSE [twin EXCEPT
                              !.fetched = Append(@, search_params(t.q, t.group)),
                              !.logged = @ \o turn_log(TwinMode(t.mode), t.q)]
    /\ spc' = "got"
    /\ UNCHANGED <<search_strings, idx, results, exc>>
    /\ UNCHANGED <<cacheVars, pureVars>>

\* search with line 91 putting the items of a page in front of the results
\* of the turns before it
SearchParse_Prepend ==
    /\ spc = "got"
    /\ IF response = None
       THEN /\ idx' = idx + 1
            /\ spc' = "loop"
            /\ UNCHANGED <<results, exc, logged, twin>>
       ELSE LET mode == Turns(search_strings)[idx].mode
                p == parse(response, mode, clock)
                p2 == parse(response, TwinMode(mode), clock)
            IN  /\ logged' = logged \o p.logged
                /\ twin' = IF twin.exc # "none" THEN twin
                           ELSE IF p2.exc # "none"
                           THEN [twin EXCEPT !.exc = p2.exc, !.logged = @ \o p2.logged]
                           ELSE [twin EXCEPT !.results = p2.items \o @,
                                             !.logged = @ \o p2.logged]
                /\ IF p.exc # "none"
                   THEN /\ exc' = p.exc
                        /\ spc' = "raised"
                        /\ UNCHANGED <<results, idx>>
                   ELSE /\ results' = p.items \o results
                        /\ idx' = idx + 1
                        /\ spc' = "loop"
                        /\ UNCHANGED exc
    /\ UNCHANGED <<search_strings, response, fetched>>
    /\ UNCHANGED <<cacheVars, pureVars>>

\* search, lines 87-91: if not response: continue; results += self.parse(...)
SearchParse ==
    /\ spc = "got"
    /\ IF response = None
       THEN /\ idx' = idx + 1
            /\ spc' = "loop"
            /\ UNCHANGED <<results, exc, logged, twin>>
       ELSE LET mode == Turns(search_strings)[idx].mode
                p == parse(response, mode, clock)
                p2 == parse(response, TwinMode(mode), clock)
            IN  /\ logged' = logged \o p.logged
                /\ twin' = IF twin.exc # "none" THEN twin
                           ELSE IF p2.exc # "none"
                           THEN [twin EXCEPT !.exc = p2.exc, !.logged = @ \o p2.logged]
                           ELSE [twin EXCEPT !.results = @ \o p2.items,
                                             !.logged = @ \o p2.logged]
                /\ IF p.exc # "none"
                   THEN /\ exc' = p.exc
                        /\ spc' = "raised"
                        /\ UNCHANGED <<results, idx>>
                   ELSE /\ results' = results \o p.items
                        /\ idx' = idx + 1
                        /\ spc' = "loop"
                        /\ UNCHANGED exc
    /\ UNCHANGED <<search_strings, response, fetched>>
    /\ UNCHANGED <<cacheVars, pureVars>>

\* search, line 93: return results
SearchReturn ==
    /\ spc = "loop"
    /\ idx > Len(Turns(search_strings))
    /\ spc' = "done"
    /\ UNCHANGED <<search_strings, idx, response, results, fetched, exc, logged, twin>>
    /\ UNCHANGED <<cacheVars, pureVars>>

InitSearch ==
    /\ search_strings = <<>>
    /\ spc = "idle"
    /\ idx = 1
    /\ response = None
    /\ results = <<>>
    /\ fetched = <<>>
    /\ exc = "none"
    /\ logged = <<>>
    /\ twin = [results |-> <<>>, fetched |-> <<>>, exc |-> "none", logged |-> <<>>]

\* no extractor is being called on its own
InitPure ==
    /\ arg = <<>>
    /\ ret = <<>>

Init == InitCache /\ InitSearch /\ InitPure

NextCache ==
    \/ Tick
    \/ UpdateCacheSkip
    \/ UpdateCacheEnter
    \/ ClearCache
    \/ SetUpdated
    \/ FetchCategory
    \/ Persist

SpecCache == Init /\ [][NextCache]_vars

NextSearch ==
    \/ SearchCall
    \/ SearchFetch
    \/ SearchParse
    \/ SearchReturn

\* a search runs on its own: the cache store starts empty and stays untouched
InitOfSearch == Init /\ cache = {}

SpecSearch == InitOfSearch /\ [][NextSearch]_vars

-----------------------------------------------------------------------------
(* Properties of BinSearchCache.update_cache *)

\* the categories of the fetch events of a log, in the order of the log
RECURSIVE FetchesOf(_)
FetchesOf(l) ==
    IF l = <<>> THEN <<>>
    ELSE (IF Head(l).ev = "fetch" THEN <<Head(l).g>> ELSE <<>>) \o FetchesOf(Tail(l))

AllGroups == [i \in 1..Len(groups) |-> i]

\* the call that ran last has ended, and it had passed the guard
RefreshEnded == cpc = "idle" /\ outcome \in {"returned", "raised"}

\* a list of cache items is in category order, and in feed order inside a category
InCategoryOrder(items) ==
    \A i, j \in 1..Len(items) :
        i < j => \/ items[i].cat < items[j].cat
                 \/ items[i].cat = items[j].cat /\ items[i].n < items[j].n

\* C1: whenever update_cache is entered while now - last_update < min_time (30
\* minutes) the call changes nothing: no clear, no feed fetch, no call of
\* mass_action, self.updated as it was; whenever it is entered with
\* now - last_update >= min_time the call goes on into the refresh, which
\* starts by clearing the cache and fetches the first category.
C1_GuardDecidesRefresh ==
    /\ [][cpc = "idle" =>
            /\ (clock - updated < min_time =>
                   /\ cpc' = "idle"
                   /\ log' = <<>> \/ log' = log
                   /\ batches' = <<>> \/ batches' = batches
                   /\ UNCHANGED <<cache, updated, feed, cl>>)
            /\ (clock - updated >= min_time /\ outcome' # outcome =>
                   /\ cpc' = "clear"
                   /\ outcome' = "running")]_vars
    /\ [](outcome = "noop" => cpc = "idle" /\ log = <<>> /\ batches = <<>>)
    /\ [](RefreshEnded =>
            /\ Len(log) >= 3
            /\ log[1] = Ev("clear", 0)
            /\ log[3] = Ev("fetch", 1))

\* a second call inside the interval has left a populated cache as it was
C1_Witness ==
    /\ outcome = "noop"
    /\ cache # {}
    /\ updated > 0
    /\ clock - updated < min_time

\* C2: once update_cache has passed the guard, the cache is cleared, then
\* self.updated is set, and only then is the first category fetched; when the
\* call ends, by return or by an exception, self.updated is the time the
\* refresh started at, whatever the feeds answered, and a call made less than
\* min_time after that start does not refresh.
C2_UpdatedStampedAtStart ==
    /\ (cpc \in {"fetch", "persist"} \/ RefreshEnded) =>
          /\ Len(log) >= 2
          /\ log[1] = Ev("clear", 0)
          /\ log[2] = Ev("updated", 0)
          /\ \A i \in 3..Len(log) : log[i].ev \in {"fetch", "persist"}
          /\ updated = started
          /\ started <= clock
    /\ (RefreshEnded /\ clock - started < min_time) =>
          /\ ~should_update
          /\ ENABLED UpdateCacheSkip
          /\ ~ENABLED UpdateCacheEnter

\* a refresh that a failing feed ended, after another category had yielded
\* items: self.updated is the start of that refresh
C2_Witness ==
    /\ RefreshEnded
    /\ outcome = "raised"
    /\ cl # <<>>
    /\ started > 0
    /\ clock - started < min_time

\* C7: a category whose feed fetch fails or carries no entries is skipped:
\* update_cache never ends by an exception, and a refresh that ended has
\* fetched all four categories in their order and persisted the items of the
\* categories that had some.
C7_FailedFeedNeverFatal ==
    /\ outcome # "raised"
    /\ RefreshEnded => /\ FetchesOf(log) = AllGroups
                       /\ cache = Range(cl)

\* the feed of the category fetched last is valid by _check_auth
FeedValid == feed # None /\ _check_auth(feed) # None

\* C8: no entry of an invalid feed (empty feed container, or title 'Invalid
\* Link') becomes a cache item: right after the feed of a category was
\* handled, cl holds an item of that category only if the feed was valid.
C8_InvalidFeedDiscarded ==
    (cpc \in {"fetch", "persist"} /\ FetchesOf(log) # <<>> /\ feed # None /\ ~FeedValid)
        => \A i \in 1..Len(cl) : cl[i].cat # Last(FetchesOf(log))

\* C9: a refresh calls mass_action at most once; the call comes after the
\* four categories were fetched, with cl, the non-empty list of the items of
\* all categories in category order; with an empty cl there is no call, and
\* the refresh returns.
C9_OneBatchedPersist ==
    /\ Len(batches) <= 1
    /\ batches # <<>> =>
          /\ log = <<Ev("clear", 0), Ev("updated", 0)>>
                   \o [i \in 1..Len(groups) |-> Ev("fetch", i)]
                   \o <<Ev("persist", 0)>>
          /\ batches[1] = cl
          /\ cl # <<>>
          /\ InCategoryOrder(cl)
          /\ outcome = "returned"
    /\ (cpc = "persist" \/ (cpc = "idle" /\ outcome = "returned")) =>
          /\ FetchesOf(log) = AllGroups
          /\ cl = <<>> => batches = <<>> /\ log[Len(log)].ev = "fetch"
    /\ (cpc = "idle" /\ outcome = "returned" /\ cl # <<>>) => Len(batches) = 1
    /\ (cpc \in {"fetch", "persist"} /\ FetchesOf(log) # <<>> /\ feed # None) =>
          SelectSeq(cl, LAMBDA ci : ci.cat = Last(FetchesOf(log))) = Items(feed.entries)

\* a refresh that returned after persisting, in one batch, items of two categories
C9_Witness ==
    /\ cpc = "idle"
    /\ outcome = "returned"
    /\ Len(batches) = 1
    /\ \E i, j \in 1..Len(batches[1]) : batches[1][i].cat < batches[1][j].cat

\* C10: after a call of update_cache that passed the guard the rows of the
\* cache are exactly the items accumulated in that call.
C10_CacheIsTheCycle ==
    RefreshEnded => cache = Range(cl)

-----------------------------------------------------------------------------
(* Properties of BinSearchProvider.search and parse *)

\* the response get_url returned last has been handled by lines 87-91
Handled == spc \in {"loop", "done", "raised"} /\ fetched # <<>>

\* the data rows of a page: the <tr> after the two header rows
DataRows(page) ==
    IF page.table /\ Len(page.rows) > row_offset
    THEN SubSeq(page.rows, row_offset + 1, Len(page.rows))
    ELSE <<>>

\* the page carries nothing to parse: no table, or no row after the header offset
NoDataRows(page) == ~page.table \/ Len(page.rows) <= row_offset

\* a row with its identifier field, its subject span and a quoted subject
WellFormed(row) == row.hasInput /\ row.hasSpan /\ row.hasQuote

AgeParses(row) == timeparse(row.age) # None

\* the search_params of all the turns of a search, in loop order
AllParams(ss) == [i \in 1..Len(Turns(ss)) |-> search_params(Turns(ss)[i].q, Turns(ss)[i].group)]

\* C3: a fetch that failed or came back empty never aborts the turns that
\* remain: after it search has not raised and goes on with the next turn,
\* and a search that returned has issued exactly one fetch for every
\* (mode, query, group), in loop order.
C3_FailedFetchNeverAborts ==
    /\ (Handled /\ (response = None \/ NoDataRows(response))) =>
          /\ spc # "raised"
          /\ idx = Len(fetched) + 1
    /\ spc = "done" => fetched = AllParams(search_strings)

\* C4: a row whose age text is no relative time is dropped and nothing else:
\* on a page whose rows are otherwise well formed, parse does not raise, search
\* goes on, and the rows with a parseable age have yielded their items.
C4_BadAgeDropsRowOnly ==
    (/\ Handled
     /\ response # None
     /\ \A i \in 1..Len(DataRows(response)) : WellFormed(DataRows(response)[i])
     /\ \E i \in 1..Len(DataRows(response)) : ~AgeParses(DataRows(response)[i]))
        => /\ spc # "raised"
           /\ exc = "none"
           /\ idx = Len(fetched) + 1

\* C5: a row without identifier input, without subject span or without a
\* quoted subject is silently dropped: on a page whose rows all carry a
\* parseable age, parse raises nothing and emits at most one item per row.
C5_MalformedRowDropped ==
    (/\ Handled
     /\ response # None
     /\ \A i \in 1..Len(DataRows(response)) : AgeParses(DataRows(response)[i])
     /\ \E i \in 1..Len(DataRows(response)) : ~WellFormed(DataRows(response)[i]))
        => /\ spc # "raised"
           /\ exc = "none"
           /\ parse(response, "Episode", clock).exc = "none"
           /\ Len(parse(response, "Episode", clock).items) < Len(DataRows(response))

\* C6: a response without result table, or with a table of no row after the
\* two header rows, makes parse return an empty list without raising, and
\* search goes on with the next group.
C6_NoTableIsNoResults ==
    (Handled /\ response # None /\ NoDataRows(response))
        => /\ parse(response, "Episode", clock).items = <<>>
           /\ parse(response, "Episode", clock).exc = "none"
           /\ spc # "raised"
           /\ idx = Len(fetched) + 1

\* the items of the result list whose link embeds the identifier id
ItemsOf(id) == SelectSeq(results, LAMBDA it : it.link[2] = id)

\* a row with identifier and title non-empty and an age that parses
Complete(row) ==
    /\ WellFormed(row)
    /\ row.name # <<>>
    /\ strip_extensions(row.quoted, extensions) # <<>>
    /\ AgeParses(row)

\* the subject of the row gives no size: the pattern does not match, or the
\* conversion of what matched yields no value
NoSize(row) ==
    \/ size_regex_search(row.size) = None
    \/ convert_size(size_regex_search(row.size), "nbsp") = None

\* the response handled last was parsed without a raise
Parsed == Handled /\ response # None /\ spc # "raised"

\* C11: the size is a soft field: every row with a non-empty identifier, a
\* non-empty title and a parseable age is turned into an item, with or
\* without a size, the size of the item being -1 when the subject does not
\* match the size pattern or the conversion yields no value; when the page was
\* parsed, the result list holds exactly one item for the row.
C11_SizeIsSoft ==
    (Handled /\ response # None) =>
        \A i \in 1..Len(DataRows(response)) :
            LET row == DataRows(response)[i]
                r == parse_row(row, "Episode", clock)
            IN  Complete(row) =>
                    /\ r.kind = "item"
                    /\ NoSize(row) => r.item.size = -1
                    /\ Parsed =>
                          /\ Len(ItemsOf(row.name)) = 1
                          /\ NoSize(row) => ItemsOf(row.name)[1].size = -1

\* a page was parsed that held a row without size text, and the item of the
\* row is in the result list with size -1
C11_Witness ==
    /\ Parsed
    /\ \E i \in 1..Len(DataRows(response)) :
          /\ Complete(DataRows(response)[i])
          /\ size_regex_search(DataRows(response)[i].size) = None
          /\ Len(ItemsOf(DataRows(response)[i].name)) = 1
    /\ \E i \in 1..Len(DataRows(response)) :
          /\ Complete(DataRows(response)[i])
          /\ size_regex_search(DataRows(response)[i].size) # None
          /\ convert_size(size_regex_search(DataRows(response)[i].size), "nbsp") = None

\* C12: every item of the result list of search has a non-empty title and a
\* link that embeds a non-empty identifier in the download URL template; a row
\* whose title is empty after the extension stripping, or whose identifier is
\* empty, yields no item.
C12_ItemsHaveTitleAndId ==
    /\ \A i \in 1..Len(results) :
          /\ results[i].title # <<>>
          /\ results[i].link[1] = "https://www.binsearch.info/?action=nzb&"
          /\ results[i].link[2] # <<>>
          /\ results[i].link[3] = "=1"
    /\ (Handled /\ response # None) =>
          \A i \in 1..Len(DataRows(response)) :
              LET row == DataRows(response)[i]
              IN  (WellFormed(row) /\ (row.name = <<>> \/ strip_extensions(row.quoted, extensions) = <<>>))
                      => /\ parse_row(row, "Episode", clock).kind = "skip"
                         /\ row.name # <<>> => ItemsOf(row.name) = <<>>

\* a page with a row whose title strips to nothing and a complete row was
\* parsed: the result list holds the item of the complete row only
C12_Witness ==
    /\ Parsed
    /\ results # <<>>
    /\ \E i \in 1..Len(DataRows(response)) :
          /\ WellFormed(DataRows(response)[i])
          /\ DataRows(response)[i].name # <<>>
          /\ strip_extensions(DataRows(response)[i].quoted, extensions) = <<>>

-----------------------------------------------------------------------------
\* The title cleaning of parse applied to titles over a small alphabet

MaxTitleLen == 3

\* the characters titles are drawn from
TitleAlphabet == {"S", "a", "z", "."}

RECURSIVE TitlesUpTo(_)
TitlesUpTo(n) ==
    IF n = 0 THEN {<<>>}
    ELSE LET shorter == TitlesUpTo(n - 1)
         IN  shorter \cup {Append(t, c) : t \in {u \in shorter : Len(u) = n - 1},
                                           c \in TitleAlphabet}

\* the quoted title title_regex captured (line 131)
InitStrip ==
    /\ InitCache
    /\ cache = {}
    /\ InitSearch
    /\ arg \in TitlesUpTo(MaxTitleLen)
    /\ ret = <<>>

\* parse, lines 132-134, run on the title, then on what it returned
StripExtensions ==
    /\ Len(ret) < 2
    /\ ret' = Append(ret, strip_extensions(IF ret = <<>> THEN arg ELSE Last(ret),
                                           extensions))
    /\ UNCHANGED <<arg, cacheVars, searchVars>>

NextStrip == StripExtensions

SpecStrip == InitStrip /\ [][NextStrip]_vars

\* C13: the title cleaning (the strip of '.nfo', '.par2', '.zip' in that
\* order) is idempotent: cleaning the cleaned title again returns the same
\* string.
C13_StripIsIdempotent == Len(ret) = 2 => ret[2] = ret[1]

-----------------------------------------------------------------------------
\* BinSearchCache._get_title_and_url on feed entries

\* a str value of an entry field; a missing field is None
Str(s) == [kind |-> "str", v |-> s]

\* the truth value of a field value: neither None nor ''
Truthy(x) == x # None /\ x.v # <<>>

\* s has the literal lit at index i
StartsAt(s, i, lit) ==
    /\ i >= 1
    /\ i + Len(lit) - 1 <= Len(s)
    /\ SubSeq(s, i, i + Len(lit) - 1) = lit

IsDigit(c) == c \in {"0", "1", "2", "3", "4", "5", "6", "7", "8", "9"}

\* \d+ from index i: the index after the run of digits that starts at i
RECURSIVE SkipDigits(_, _)
SkipDigits(s, i) ==
    IF i <= Len(s) /\ IsDigit(s[i]) THEN SkipDigits(s, i + 1) ELSE i

\* open \d+/\d+ close at index i: the index after the match, 0 without one
PartCountAt(s, i, open, close) ==
    IF ~StartsAt(s, i, <<open>>) THEN 0
    ELSE LET a == SkipDigits(s, i + 1)
         IN  IF a = i + 1 \/ ~StartsAt(s, a, <<"/">>) THEN 0
             ELSE LET b == SkipDigits(s, a + 1)
                  IN  IF b = a + 1 \/ ~StartsAt(s, b, <<close>>) THEN 0
                      ELSE b + 1

\* line 178, https?://www\.binsearch\.info/.b= at index i: the index after
\* the match, 0 without one
UrlPrefixAt(s, i) ==
    IF ~StartsAt(s, i, <<"h", "t", "t", "p">>) THEN 0
    ELSE LET j == IF StartsAt(s, i + 4, <<"s">>) THEN i + 5 ELSE i + 4
             k == j + Len(<<":", "/", "/", "w", "w", "w", ".", "b", "i", "n", "s", "e", "a", "r", "c", "h", ".", "i", "n", "f", "o", "/">>)
         IN  IF StartsAt(s, j, <<":", "/", "/", "w", "w", "w", ".", "b", "i", "n", "s", "e", "a", "r", "c", "h", ".", "i", "n", "f", "o", "/">>) /\ k <= Len(s)
                    /\ StartsAt(s, k + 1, <<"b", "=">>)
             THEN k + 3 ELSE 0

\* line 178, descTitleStart = ^.*https?://www\.binsearch\.info/.b= : the
\* index after the match, 0 without one; .* is greedy, the match ends with
\* the last prefix of the text
descTitleStart(s) ==
    LET ends == {UrlPrefixAt(s, i) : i \in 1..Len(s)} \ {0}
    IN  IF ends = {} THEN 0 ELSE CHOOSE e \in ends : \A f \in ends : f <= e

\* line 179, descTitleEnd.sub('', s): &amp;.*$ cuts from the first &amp;
descTitleEnd_sub(s) ==
    LET at == {i \in 1..Len(s) : StartsAt(s, i, <<"&", "a", "m", "p", ";">>)}
    IN  IF at = {} THEN s
        ELSE SubSeq(s, 1, (CHOOSE i \in at : \A j \in at : i <= j) - 1)

\* str.replace(old, new)
RECURSIVE replace(_, _, _)
replace(s, old, new) ==
    IF s = <<>> THEN <<>>
    ELSE IF StartsAt(s, 1, old)
         THEN new \o replace(SubSeq(s, Len(old) + 1, Len(s)), old, new)
         ELSE <<Head(s)>> \o replace(Tail(s), old, new)

\* line 183, .?yEnc.?\(\d+/\d+\)$ matches from index i to the end of s
yEncCleanerAt(s, i) ==
    \E lead \in {0, 1}, mid \in {0, 1} :
        /\ i + lead + 4 + mid - 1 <= Len(s)
        /\ StartsAt(s, i + lead, <<"y", "E", "n", "c">>)
        /\ PartCountAt(s, i + lead + 4 + mid, "(", ")") = Len(s) + 1

\* titleCleaners[0].sub('', s): the leftmost match is cut, it ends the text
yEncCleaner_sub(s) ==
    LET at == {i \in 1..Len(s) : yEncCleanerAt(s, i)}
    IN  IF at = {} THEN s
        ELSE SubSeq(s, 1, (CHOOSE i \in at : \A j \in at : i <= j) - 1)

\* line 184, titleCleaners[1].sub('', s): every ' [\d+/\d+] ' is cut, the
\* matches taken left to right without overlap
RECURSIVE partCleaner_sub(_)
partCleaner_sub(s) ==
    IF s = <<>> THEN <<>>
    ELSE LET e == IF Head(s) = " " THEN PartCountAt(s, 2, "[", "]") ELSE 0
         IN  IF e # 0 /\ StartsAt(s, e, <<" ">>)
             THEN partCleaner_sub(SubSeq(s, e + 1, Len(s)))
             ELSE <<Head(s)>> \o partCleaner_sub(Tail(s))

\* lines 205-206: for titleCleaner in self.titleCleaners
titleCleaners(s) == partCleaner_sub(yEncCleaner_sub(s))

\* lines 194-212
_get_title_and_url(item) ==
    LET description == item.description
        title ==
            IF Truthy(description)
            THEN IF descTitleStart(description.v) # 0
                 THEN Str(replace(descTitleEnd_sub(
                              SubSeq(description.v, descTitleStart(description.v),
                                     Len(description.v))),
                          <<"+">>, <<".">>))
                 ELSE IF Truthy(item.title)
                      THEN Str(titleCleaners(item.title.v))
                      ELSE item.title
            ELSE description
        url == IF Truthy(item.link)
               THEN Str(replace(item.link.v, <<"&", "a", "m", "p", ";">>, <<"&">>))
               ELSE item.link
    IN  [title |-> title, url |-> url]

\* the names the feed titles are made of
Names == {<<"S", "h", "o", "w", ".", "N", "a", "m", "e">>, <<"a">>}

\* the bracketed part counter of a raw title, with the blanks around it
Brackets == {<<>>, <<" ", "[", "1", "/", "2", "0", "]">>, <<" ", "[", "1", "/", "2", "0", "]", " ">>, <<"[", "1", "/", "2", "0", "]">>}

\* the yEnc part marker that ends a raw title
Markers == {<<>>, <<" ", "y", "E", "n", "c", " ", "(", "1", "/", "2", "0", ")">>, <<"y", "E", "n", "c", " ", "(", "1", "/", "2", "0", ")">>, <<" ", "y", "E", "n", "c", "(", "1", "/", "2", "0", ")">>, <<" ", "y", "E", "n", "c", " ", "(", "1", "/", "2", "0", ")", " ", "x">>}

RawTitles ==
    {None, Str(<<>>)}
        \cup {Str(n \o b \o m) : n \in Names, b \in Brackets, m \in Markers}

Descriptions ==
    {None, Str(<<>>), Str(<<"S", "h", "o", "w", " ", "N", "a", "m", "e", " ", "y", "E", "n", "c">>), Str(<<"s", "e", "e", " ", "h", "t", "t", "p", "s", ":", "/", "/", "w", "w", "w", ".", "b", "i", "n", "s", "e", "a", "r", "c", "h", ".", "i", "n", "f", "o", "/", "?", "b", "=", "S", "h", "o", "w", "+", "N", "a", "m", "e", "&", "a", "m", "p", ";", "g", "=", "a", "l", "t", ".", "b", "i", "n", "a", "r", "i", "e", "s", ".", "h", "d", "t", "v", "&", "a", "m", "p", ";", "p", "=", "1">>), Str(<<"h", "t", "t", "p", ":", "/", "/", "w", "w", "w", ".", "b", "i", "n", "s", "e", "a", "r", "c", "h", ".", "i", "n", "f", "o", "/", "?", "b", "=", "a", " ", "h", "t", "t", "p", ":", "/", "/", "w", "w", "w", ".", "b", "i", "n", "s", "e", "a", "r", "c", "h", ".", "i", "n", "f", "o", "/", "?", "b", "=", "S", "h", "o", "w", ".", "N", "a", "m", "e">>)}

Links == {None, Str(<<"h", "t", "t", "p", "s", ":", "/", "/", "w", "w", "w", ".", "b", "i", "n", "s", "e", "a", "r", "c", "h", ".", "i", "n", "f", "o", "/", "?", "b", "=", "a", "&", "a", "m", "p", ";", "g", "=", "b", "&", "a", "m", "p", ";", "p", "=", "1">>)}

\* the entries _parse_item hands to _get_title_and_url
InitTitle ==
    /\ InitCache
    /\ cache = {}
    /\ InitSearch
    /\ arg \in [description : Descriptions, title : RawTitles, link : Links]
    /\ ret = <<>>

GetTitleAndUrl ==
    /\ ret = <<>>
    /\ ret' = <<_get_title_and_url(arg)>>
    /\ UNCHANGED <<arg, cacheVars, searchVars>>

NextTitle == GetTitleAndUrl

SpecTitle == InitTitle /\ [][NextTitle]_vars

\* the description of the entry does not carry the URL prefix
PrefixAbsent(item) ==
    ~Truthy(item.description) \/ descTitleStart(item.description.v) = 0

\* C14: for an entry whose description does not carry the URL prefix and
\* whose raw title is '<name> [n/m] yEnc (n/m)', the recovered title is
\* '<name>': the bracketed counter and the yEnc marker are both stripped.
C14_BothMarkersStripped ==
    \A n \in Names :
        (/\ ret # <<>>
         /\ Truthy(arg.description)
         /\ descTitleStart(arg.description.v) = 0
         /\ arg.title = Str(n \o <<" ", "[", "1", "/", "2", "0", "]">> \o <<" ", "y", "E", "n", "c", " ", "(", "1", "/", "2", "0", ")">>))
            => ret[1].title = Str(n)

\* C15: for an entry without the URL prefix, the description being present
\* without it, missing or empty, the recovered title is the raw title with
\* the noise patterns stripped, and is absent only when the raw title is.
C15_FallbackUsesRawTitle ==
    (ret # <<>> /\ PrefixAbsent(arg)) =>
        /\ ret[1].title = IF arg.title = None THEN None
                          ELSE Str(titleCleaners(arg.title.v))
        /\ ret[1].title = None => arg.title = None

-----------------------------------------------------------------------------
\* The cache between the clear and the persistence; the search mode; the
\* order of the results; the rate of the refreshes

\* C16: during a refresh that passed the guard, whoever reads the cache
\* between the clear and the persistence reads an empty cache, never old rows
\* with new ones: the cache changes at the clear, to empty, and at the
\* persistence, from empty to the rows of the batch, and at no other step.
C16_EmptyBetweenClearAndPersist ==
    /\ [](cpc \in {"set", "fetch", "persist"} => cache = {})
    /\ [][cache' # cache =>
            \/ cpc = "clear" /\ cache' = {}
            \/ /\ cpc = "persist"
               /\ cache = {}
               /\ Len(log) >= 1 /\ log[1] = Ev("clear", 0)
               /\ cache' = Range(cl)]_vars

\* the feeds have answered with entries and the batch is about to be
\* persisted: the cache is empty
C16_Witness ==
    /\ cpc = "persist"
    /\ cl # <<>>
    /\ cache = {}
    /\ log[1] = Ev("clear", 0)

\* the trace events of a log that carry the text ev
RECURSIVE EventsOf(_, _)
EventsOf(l, ev) ==
    IF l = <<>> THEN <<>>
    ELSE (IF Head(l).ev = ev THEN <<Head(l)>> ELSE <<>>) \o EventsOf(Tail(l), ev)

\* the search runs in mode 'RSS' (its twin then runs in another mode)
RunsRSS == search_strings # <<>> /\ search_strings[1][1] = "RSS"

\* C17: the mode affects only the log: on the same search strings and the
\* same responses, search in mode 'RSS' and search in another mode issue the
\* same fetches, end the same way and return the same items in the same
\* order; the run in mode 'RSS' logs no 'Search string' and no 'Found result',
\* the other run logs one 'Search string' per fetch and one 'Found result' per
\* item returned.
C17_ModeAffectsOnlyLogging ==
    /\ twin.fetched = fetched
    /\ twin.results = results
    /\ twin.exc = exc
    /\ LET rssLog == IF RunsRSS THEN logged ELSE twin.logged
           otherLog == IF RunsRSS THEN twin.logged ELSE logged
       IN  /\ rssLog = <<>>
           /\ Len(EventsOf(otherLog, "Search string")) = Len(fetched)
           /\ spc \in {"loop", "done"} =>
                 Len(EventsOf(otherLog, "Found result")) = Len(results)

\* a search has returned items, and its log differs from the log of the
\* same search in the other mode
C17_Witness ==
    /\ spc = "done"
    /\ results # <<>>
    /\ twin.results = results
    /\ twin.logged # logged

\* item a comes before item b: by the fetch that brought it, then by the row
Precedes(a, b) ==
    \/ a.link[2][1] < b.link[2][1]
    \/ a.link[2][1] = b.link[2][1] /\ a.link[2][2] < b.link[2][2]

\* C18: the list search returns is the concatenation, in the order of the
\* (mode, query, group) loops with group 1 before group 2 for each query, of
\* the items of each parsed page in row order: an item of a later fetch never
\* precedes an item of an earlier one, and each fetch carries the query and
\* the group of its own turn.
C18_ResultsInLoopOrder ==
    /\ \A k \in 1..Len(fetched) :
          /\ fetched[k] = search_params(Turns(search_strings)[k].q,
                                        Turns(search_strings)[k].group)
          /\ fetched[k].server = IF k % 2 = 1 THEN 1 ELSE 2
          /\ k % 2 = 0 => fetched[k].q = fetched[k - 1].q
    /\ \A i, j \in 1..Len(results) : i < j => Precedes(results[i], results[j])
    /\ \A i \in 1..Len(results) : results[i].link[2][1] \in 1..Len(fetched)
    /\ Parsed =>
          LET items == parse(response, "Episode", clock).items
          IN  /\ Len(items) <= Len(results)
              /\ SubSeq(results, Len(results) - Len(items) + 1, Len(results)) = items
              /\ \A i \in 1..Len(items) : items[i].link[2][1] = Len(fetched)

\* a search has returned two items that two different fetches brought
C18_Witness ==
    /\ spc = "done"
    /\ Len(results) = 2
    /\ results[1].link[2][1] # results[2].link[2][1]

\* C19: under a clock that never goes back, the starts of two consecutive
\* refreshes of one cache are at least min_time apart: a refresh clears the
\* cache only min_time or more after the start of the refresh before it, and
\* fetches the feed four times at most.
C19_RefreshesAreRateLimited ==
    /\ [][clock' >= clock]_vars
    /\ [][started' # started => started' - started >= min_time]_vars
    /\ [][(cpc = "clear" /\ cpc' = "set") => clock - started >= min_time]_vars
    /\ [](Len(FetchesOf(log)) <= Len(groups))

\* a refresh has passed the guard and is about to clear the cache, min_time
\* or more after the start of the refresh before it
C19_Witness ==
    /\ cpc = "clear"
    /\ started > 0
    /\ clock - started >= min_time

=============================================================================
